---- MODULE Spec2Model ----
(***************************************************************************)
(* Model of the vendor-portal ingestion job: libs/parser.py (ParseVendors: *)
(* auth, set_filter, _parse_csv_payments, get_payments,                    *)
(* get_premium_payments, get_app_list, get_client_list), libs/ydb.py       *)
(* (upset_data) and index.py (handler).                                    *)
(*                                                                         *)
(* Four specifications share the module:                                   *)
(*   Spec        one run of a caller of ParseVendors: the handler of       *)
(*               index.py, or a caller of one of the paginated scrapers;   *)
(*   SpecPages   the run of a caller of a scraper alone, with fairness;    *)
(*   SpecCsv     _parse_csv_payments, row by row, on bounded CSV exports;  *)
(*   SpecUpsert  upset_data, step by step, on bounded batches.             *)
(*                                                                         *)
(* A Python dict is modelled as the sequence of its <<key, value>> pairs   *)
(* in insertion order, keys pairwise distinct.  A CSV field is a string;   *)
(* a value of a payment is [t |-> "str", v |-> s] or                       *)
(* [t |-> "float", v |-> repr].                                            *)
(***************************************************************************)
EXTENDS Integers, Sequences, FiniteSets, TLC

VARIABLES
    \* ---- the run of a caller (Spec)
    caller,            \* "handler" | "get_app_list" | "get_client_list"
    pc,                \* position of the caller
    kind,              \* report kind being processed by the handler
    date_time,         \* ParseVendors.date_time, as [mm, yyyy]
    session_id,        \* ParseVendors.session_id ("None" before auth)
    reqs,              \* portal requests sent so far, in order
    premium_payments,  \* handler: result of get_premium_payments()
    payments,          \* handler: result of get_payments()
    i,                 \* handler: loop index of the chunk loop
    calls,             \* upset_data calls made so far: [table, data, exc]
    store,             \* interactions with the remote store, in order
    status,            \* statusCode returned by the handler (0: none)
    raised,            \* the exception that ended the run ("" : none)
    page,              \* scraper: last page requested
    served,            \* scraper: the page bodies the server returned
    result,            \* scraper: accumulated rows
    \* ---- _parse_csv_payments (SpecCsv)
    content,           \* the CSV export being parsed
    is_premium,
    header,
    rix,               \* number of data rows consumed
    csv_payments,      \* the local list `payments`
    cpc,               \* "start" | "rows" | "returned" | "raised"
    cexc,              \* exception raised by the parser ("" : none)
    \* ---- upset_data (SpecUpsert)
    table,
    data,
    upc,               \* "start" | "validated" | "built" | "prepared" |
                       \* "returned" | "raised"
    uexc,
    query,             \* the statement built (NoQuery before)
    param_values

\* date_time is read by the run and by the parser, store is written by the
\* run and by upset_data; the other variables belong to one specification.
runOnly == <<caller, pc, kind, session_id, reqs, premium_payments, payments,
             i, calls, status, raised, page, served, result>>
csvOnly == <<content, is_premium, header, rix, csv_payments, cpc, cexc>>
upOnly  == <<table, data, upc, uexc, query, param_values>>
vars    == <<runOnly, csvOnly, upOnly, date_time, store>>

Min(a, b) == IF a <= b THEN a ELSE b

(***************************************************************************)
(* Python dict, insertion-ordered.                                         *)
(***************************************************************************)
Keys(d) == [n \in 1..Len(d) |-> d[n][1]]
KeySet(d) == {d[n][1] : n \in 1..Len(d)}
HasKey(d, k) == k \in KeySet(d)
Get(d, k) == d[CHOOSE n \in 1..Len(d) : d[n][1] = k][2]
\* d[k] = v : an existing key keeps its position, a new key is appended
DictSet(d, k, v) ==
    IF HasKey(d, k)
    THEN [n \in 1..Len(d) |-> IF d[n][1] = k THEN <<k, v>> ELSE d[n]]
    ELSE Append(d, <<k, v>>)

Str(s) == [t |-> "str", v |-> s]
Float(s) == [t |-> "float", v |-> s]

(***************************************************************************)
(* ParseVendors._parse_csv_payments (parser.py 166-203).                   *)
(*                                                                         *)
(* A CSV export is [rows, bad]: rows is what csv.reader yields line by     *)
(* line (the header line first), bad is the line at which the reader       *)
(* raises csv.Error (0: no such line).                                     *)
(***************************************************************************)
AMOUNT_KEYS == {"AMOUNT", "ALL_AMOUNT"}
DATE_KEYS == {"DATE_OF_USE", "SUBSCRIPTION_START", "SUBSCRIPTION_END"}

\* value.replace(' ', '').replace(',', '.') on the field texts of the model
AmountText(value) ==
    CASE value = "1 234,56" -> "1234.56"
      [] value = "0,5"      -> "0.5"
      [] OTHER              -> value

\* float(text): the texts of the model Python accepts, and repr() of the result
FloatAccepts(text) == text \in {"1234.56", "0.5", "10", "42", "7", "1"}
FloatRepr(text) ==
    CASE text = "10" -> "10.0"
      [] text = "42" -> "42.0"
      [] text = "7"  -> "7.0"
      [] text = "1"  -> "1.0"
      [] OTHER       -> text

\* datetime.strptime(value, '%d.%m.%Y').strftime('%Y-%m-%d')
DateAccepts(value) == value \in {"01.06.2024", "15.07.2024"}
DateIso(value) ==
    CASE value = "01.06.2024" -> "2024-06-01"
      [] value = "15.07.2024" -> "2024-07-15"
      [] OTHER                -> value

\* lines 185-193: the value stored under `key`; a ValueError keeps the raw text
Coerce(key, value) ==
    IF key \in AMOUNT_KEYS
    THEN IF FloatAccepts(AmountText(value))
         THEN Float(FloatRepr(AmountText(value)))
         ELSE Str(value)
    ELSE IF key \in DATE_KEYS
         THEN IF DateAccepts(value) THEN Str(DateIso(value)) ELSE Str(value)
         ELSE Str(value)

\* line 184: for key, value in zip(header, row) -- zip stops at the shorter
RECURSIVE ZipFill(_, _, _, _)
ZipFill(hdr, row, n, payment) ==
    IF n > Min(Len(hdr), Len(row))
    THEN payment
    ELSE ZipFill(hdr, row, n + 1, DictSet(payment, hdr[n], Coerce(hdr[n], row[n])))

\* truth value of payment.get('ID')
Truthy(d, k) ==
    /\ HasKey(d, k)
    /\ IF Get(d, k).t = "str" THEN Get(d, k).v # "" ELSE Get(d, k).v # "0.0"

\* hashlib.sha256(text.encode()).hexdigest(), kept symbolic (injective)
Sha256Hex(text) == "sha256(" \o text \o ")"

\* lines 181-199: one data row.  exc is the exception the row raises
\* ("" : none), keep whether the payment is appended.
ParseRow(hdr, row, premium, dt) ==
    LET payment == ZipFill(hdr, row, 1, <<>>) IN
    IF Len(row) <= 1
    THEN [exc |-> "", keep |-> FALSE, payment |-> <<>>]
    ELSE IF premium
         THEN IF ~HasKey(payment, "MEMBER_ID")
              THEN [exc |-> "KeyError", keep |-> FALSE, payment |-> payment]
              ELSE [exc |-> "", keep |-> TRUE,
                    payment |->
                      DictSet(
                        DictSet(payment, "hash",
                          Str(Sha256Hex(Get(payment, "MEMBER_ID").v
                                        \o "01-" \o dt.mm \o "-" \o dt.yyyy))),
                        "DATE_PARSE", Str(dt.yyyy \o "-" \o dt.mm \o "-01"))]
         ELSE [exc |-> "", keep |-> Truthy(payment, "ID"), payment |-> payment]

\* line 179: next(reader)[:-1]
HeaderOf(c) == SubSeq(c.rows[1], 1, Len(c.rows[1]) - 1)

\* The whole function: [exc, payments].  The first line that raises ends the
\* call; otherwise the kept payments are returned in input order.
_parse_csv_payments(c, premium, dt) ==
    IF c.bad = 1 THEN [exc |-> "csv.Error", payments |-> <<>>]
    ELSE IF Len(c.rows) = 0 THEN [exc |-> "StopIteration", payments |-> <<>>]
    ELSE
      LET outs == [n \in 1..(Len(c.rows) - 1) |->
                     IF c.bad = n + 1
                     THEN [exc |-> "csv.Error", keep |-> FALSE, payment |-> <<>>]
                     ELSE ParseRow(HeaderOf(c), c.rows[n + 1], premium, dt)]
          failing == {n \in 1..Len(outs) : outs[n].exc # ""}
          first == CHOOSE n \in failing : \A m \in failing : n <= m
          IsKept(o) == o.keep
          kept == SelectSeq(outs, IsKept)
      IN IF failing # {}
         THEN [exc |-> outs[first].exc, payments |-> <<>>]
         ELSE [exc |-> "", payments |-> [n \in 1..Len(kept) |-> kept[n].payment]]

\* ---- bounded inputs of SpecCsv
MaxRows == 2
DateTimes == {[mm |-> "07", yyyy |-> "2024"], [mm |-> "12", yyyy |-> "2023"]}
CsvHeaders ==
    { <<"ID", "AMOUNT", "DATE_OF_USE", "X", "">>,
      <<"ID", "AMOUNT", "MEMBER_ID", "">>,
      <<"MEMBER_ID", "ALL_AMOUNT", "SUBSCRIPTION_END", "">> }
CsvFullRows ==
    { <<"1", "1 234,56", "01.06.2024", "foo", "">>,
      <<"", "abc", "31.02.2024", "m2", "">>,
      <<"42", "0,5", "15.07.2024", "", "">> }
CsvRows == {SubSeq(r, 1, n) : r \in CsvFullRows, n \in 0..5}
CsvContents ==
    {[rows |-> <<>>, bad |-> 0]} \cup
    UNION { { [rows |-> <<h>> \o [k \in 1..n |-> f[k]], bad |-> b] :
                h \in CsvHeaders, f \in [1..n -> CsvRows], b \in {0, n + 1} }
            : n \in 0..MaxRows }

CsvInit ==
    /\ content \in CsvContents
    /\ is_premium \in BOOLEAN
    /\ date_time \in DateTimes
    /\ header = <<>>
    /\ rix = 0
    /\ csv_payments = <<>>
    /\ cpc = "start"
    /\ cexc = ""

\* lines 176-179: payments = [], the reader is built, the header line is read
CsvHeader ==
    /\ cpc = "start"
    /\ IF content.bad = 1
       THEN cpc' = "raised" /\ cexc' = "csv.Error" /\ header' = header
       ELSE IF Len(content.rows) = 0
            THEN cpc' = "raised" /\ cexc' = "StopIteration" /\ header' = header
            ELSE cpc' = "rows" /\ cexc' = cexc /\ header' = HeaderOf(content)
    /\ UNCHANGED <<content, is_premium, date_time, rix, csv_payments>>

\* lines 180-199: one iteration of `for row in reader`
CsvRow ==
    /\ cpc = "rows"
    /\ rix + 1 < Len(content.rows)
    /\ rix' = rix + 1
    /\ IF content.bad = rix + 2
       THEN cpc' = "raised" /\ cexc' = "csv.Error" /\ csv_payments' = csv_payments
       ELSE LET out == ParseRow(header, content.rows[rix + 2], is_premium, date_time) IN
            IF out.exc # ""
            THEN cpc' = "raised" /\ cexc' = out.exc /\ csv_payments' = csv_payments
            ELSE /\ cpc' = cpc
                 /\ cexc' = cexc
                 /\ csv_payments' = IF out.keep THEN Append(csv_payments, out.payment)
                                    ELSE csv_payments
    /\ UNCHANGED <<content, is_premium, date_time, header>>

\* line 203: the reader is exhausted, return payments
CsvReturn ==
    /\ cpc = "rows"
    /\ rix + 1 >= Len(content.rows)
    /\ cpc' = "returned"
    /\ UNCHANGED <<content, is_premium, date_time, header, rix, csv_payments, cexc>>

(***************************************************************************)
(* upset_data (ydb.py 16-68).                                              *)
(*                                                                         *)
(* The statement is kept structured: declare is declare_block (one         *)
(* [name, type] per DECLARE), columns the UPSERT column list, values       *)
(* bind_vars_rows (one tuple of parameter names per record).               *)
(***************************************************************************)
NoQuery == [declare |-> <<>>, table |-> "", columns |-> <<>>, values |-> <<>>]

\* line 18: columns = list(data[0].keys())
Columns(d) == Keys(d[1])

\* line 20: all(set(item.keys()) == set(columns) for item in data)
MutSameStructureAny(d) ==
    \E n \in 1..Len(d) : KeySet(d[n]) = {Columns(d)[c] : c \in 1..Len(Columns(d))}
SameStructure(d) ==
    \A n \in 1..Len(d) : KeySet(d[n]) = {Columns(d)[c] : c \in 1..Len(Columns(d))}

\* lines 36, 42: col.upper() == "ID", on the column names of the model
IsIdColumn(col) == col \in {"ID", "id", "Id", "iD"}

\* line 32: param_name = f"${col}_{row_idx}"
MutParamNameNoRow(col, row_idx) == "$" \o col
param_name(col, row_idx) == "$" \o col \o "_" \o ToString(row_idx)

\* index.py line 6
chunk_size == 100
\* the handler's record lists have up to MaxChunks * chunk_size + 1 records
MaxChunks == 2

\* int(x): the texts of the model Python accepts; a float is truncated
IdTexts == {ToString(n) : n \in 0..(MaxChunks * chunk_size + 1)}
IntAccepts(val) == val.t = "float" \/ val.v \in IdTexts
IntText(val) ==
    IF val.t = "str" THEN val.v
    ELSE CASE val.v = "1234.56" -> "1234"
           [] val.v = "0.5"     -> "0"
           [] val.v = "10.0"    -> "10"
           [] val.v = "42.0"    -> "42"
           [] val.v = "7.0"     -> "7"
           [] val.v = "1.0"     -> "1"
           [] OTHER             -> val.v

\* lines 36-39: the Python value bound to the parameter of a cell
ParamValue(col, val) ==
    IF IsIdColumn(col) THEN [py |-> "int", v |-> IntText(val)]
    ELSE [py |-> "str", v |-> val.v]

\* lines 42-45: the DECLARE of a cell
Declare(col, row_idx) ==
    [name |-> param_name(col, row_idx),
     type |-> IF IsIdColumn(col) THEN "Int64" ELSE "Utf8"]

\* lines 29-39: the exception the loops raise at their first failing cell
\* ("" : none): row[col] raises KeyError when the record has no such column,
\* int() raises ValueError when it rejects the text of an ID cell
CellFailure(d, k) ==
    LET C == Len(Columns(d))
        row == d[((k - 1) \div C) + 1]
        col == Columns(d)[((k - 1) % C) + 1]
    IN IF ~HasKey(row, col) THEN "KeyError"
       ELSE IF IsIdColumn(col) /\ ~IntAccepts(Get(row, col)) THEN "ValueError(int)"
       ELSE ""
BuildFailure(d) ==
    LET cells == 1..(Len(d) * Len(Columns(d)))
        failing == {k \in cells : CellFailure(d, k) # ""}
    IN IF failing = {} THEN ""
       ELSE CellFailure(d, CHOOSE k \in failing : \A m \in failing : k <= m)

\* lines 29-48, the two nested loops, cell by cell in row-major order:
\* k-th cell is column ((k-1) % C) + 1 of record (k-1) \div C
RECURSIVE BuildParamValues(_, _, _)
BuildParamValues(d, k, acc) ==
    LET C == Len(Columns(d))
        row_idx == (k - 1) \div C
        col == Columns(d)[((k - 1) % C) + 1]
    IN IF k > Len(d) * C THEN acc
       ELSE BuildParamValues(d, k + 1,
              DictSet(acc, param_name(col, row_idx),
                      ParamValue(col, Get(d[row_idx + 1], col))))

BuildDeclareBlock(d) ==
    LET C == Len(Columns(d)) IN
    [k \in 1..(Len(d) * C) |-> Declare(Columns(d)[((k - 1) % C) + 1], (k - 1) \div C)]

BuildBindVarsRows(d) ==
    [r \in 1..Len(d) |-> [c \in 1..Len(Columns(d)) |-> param_name(Columns(d)[c], r - 1)]]

\* lines 51-55
BuildQuery(tbl, d) ==
    [declare |-> BuildDeclareBlock(d), table |-> tbl, columns |-> Columns(d),
     values |-> BuildBindVarsRows(d)]

\* What a call does before it reaches the store: the exception raised by
\* lines 18-48 ("" : none).
LocalFailure(d) ==
    IF Len(d) = 0 THEN "IndexError"
    ELSE IF ~SameStructure(d) THEN "ValueError(structure)"
    ELSE BuildFailure(d)

\* ---- bounded inputs of SpecUpsert
MaxBatch == 3
UpColumnLists ==
    { <<"ID", "a">>, <<"a", "ID">>, <<"id", "a", "a_1">>, <<"a">>, <<"ID", "id">> }
UpCell(col, seed) ==
    IF IsIdColumn(col)
    THEN CASE seed = 1 -> Str("1") [] seed = 2 -> Str("42") [] OTHER -> Str("x")
    ELSE CASE seed = 1 -> Str("u") [] seed = 2 -> Float("1234.56") [] OTHER -> Str("")
UpRecords ==
    { [c \in 1..Len(cols) |-> <<cols[c], UpCell(cols[c], seed)>>] :
        cols \in UpColumnLists, seed \in 1..3 }
UpBatches == UNION { [1..n -> UpRecords] : n \in 0..MaxBatch }

UpInit ==
    /\ table \in {"payments", "payments_premium"}
    /\ data \in UpBatches
    /\ upc = "start"
    /\ uexc = ""
    /\ query = NoQuery
    /\ param_values = <<>>
    /\ store = <<>>

\* lines 18-21
UpsetValidate ==
    /\ upc = "start"
    /\ IF Len(data) = 0
       THEN upc' = "raised" /\ uexc' = "IndexError"
       ELSE IF ~SameStructure(data)
            THEN upc' = "raised" /\ uexc' = "ValueError(structure)"
            ELSE upc' = "validated" /\ uexc' = uexc
    /\ UNCHANGED <<table, data, query, param_values, store>>

\* lines 23-55
UpsetBuild ==
    /\ upc = "validated"
    /\ IF BuildFailure(data) # ""
       THEN /\ upc' = "raised" /\ uexc' = BuildFailure(data)
            /\ UNCHANGED <<query, param_values>>
       ELSE /\ upc' = "built" /\ uexc' = uexc
            /\ query' = BuildQuery(table, data)
            /\ param_values' = BuildParamValues(data, 1, <<>>)
    /\ UNCHANGED <<table, data, store>>

\* line 61: session_pool.prepare(query)
UpsetPrepare ==
    /\ upc = "built"
    /\ store' = Append(store, [op |-> "prepare", table |-> table, rows |-> Len(data)])
    /\ \E ok \in BOOLEAN :
         IF ok THEN upc' = "prepared" /\ uexc' = uexc
         ELSE upc' = "raised" /\ uexc' = "ydb.Error"
    /\ UNCHANGED <<table, data, query, param_values>>

\* lines 62-68: one serializable transaction, commit_tx=True, return True
UpsetExecute ==
    /\ upc = "prepared"
    /\ store' = Append(store, [op |-> "execute", table |-> table, rows |-> Len(data)])
    /\ \E ok \in BOOLEAN :
         IF ok THEN upc' = "returned" /\ uexc' = uexc
         ELSE upc' = "raised" /\ uexc' = "ydb.Error"
    /\ UNCHANGED <<table, data, query, param_values>>

(***************************************************************************)
(* ParseVendors: the portal requests (parser.py 61-164, 205-247).          *)
(*                                                                         *)
(* A request is logged with the endpoint, the method, what it asks for     *)
(* (mode), the report it names, the X-Bitrix-Csrf-Token header it carries  *)
(* (csrf), the sessid query parameter it carries, the page it asks for     *)
(* and whether it succeeded (2xx, no transport error).                     *)
(***************************************************************************)
Req(ep, method, mode, report, csrf, sessid, pg, ok) ==
    [ep |-> ep, method |-> method, mode |-> mode, report |-> report,
     csrf |-> csrf, sessid |-> sessid, page |-> pg, ok |-> ok]

\* lines 211, 233: the filter and grid id of a report kind
MutFilterIdSame(k) == "mp24_subscription_partner"
FilterId(k) ==
    IF k = "premium" THEN "mp24_subscription_premium_for_partners"
    ELSE "mp24_subscription_partner"
\* lines 218, 240: the export type of a report kind
ExportType(k) == IF k = "premium" THEN "payouts_premium" ELSE "payouts"
\* index.py lines 20, 26
TableOf(k) == IF k = "premium" THEN "payments_premium" ELSE "payments"

\* line 71: re.search(r'"bitrix_sessid":"([a-f0-9]+)"', response.text); a
\* login response is [ok, token]: token is the text that stands where the
\* pattern expects the hex digits ("" : the body has no such field)
HexTokens == {"a1f0", "0c9e"}
AuthResponses ==
    {[ok |-> FALSE, token |-> ""]} \cup
    {[ok |-> TRUE, token |-> t] : t \in HexTokens \cup {"", "XYZ"}}

\* lines 61-79, called by __init__ (line 49)
auth ==
    /\ pc = "auth"
    /\ \E resp \in AuthResponses :
         /\ reqs' = Append(reqs, Req("auth", "POST", "login", "", "None", "None", 0, resp.ok))
         /\ IF ~resp.ok
            THEN /\ pc' = "raised"
                 /\ raised' = "Exception(Authentication error)"
                 /\ session_id' = session_id
            ELSE IF resp.token \notin HexTokens
                 THEN /\ pc' = "raised"
                      /\ raised' = "ValueError(Session ID not found)"
                      /\ session_id' = session_id
                 ELSE /\ pc' = IF caller = "handler" THEN "store_filter" ELSE "pages"
                      /\ raised' = raised
                      /\ session_id' = resp.token
    /\ UNCHANGED <<caller, kind, premium_payments, payments, i, calls, status,
                   page, served, result, date_time, store>>

\* _send_post_request, lines 97-103: the response is returned when the POST
\* succeeded; a RequestException (transport error, non-2xx) is logged and
\* raised again
Mut_send_post_request_swallow(ok) == "response"
_send_post_request(ok) == IF ok THEN "response" ELSE "raise"

\* line 148: headers={'X-Bitrix-Csrf-Token': self.session_id}
MutCsrfHeaderMissing(sid) == "None"
CsrfHeader(sid) == sid

\* set_filter, lines 112-149: the store-filter POST
set_filter_store ==
    /\ pc = "store_filter"
    /\ \E ok \in BOOLEAN :
         /\ reqs' = Append(reqs, Req("filter", "POST", "setFilter", FilterId(kind),
                                     CsrfHeader(session_id), "None", 0, ok))
         /\ IF _send_post_request(ok) = "response"
            THEN pc' = "apply_filter" /\ raised' = raised
            ELSE pc' = "raised" /\ raised' = "requests.RequestException"
    /\ UNCHANGED <<caller, kind, session_id, premium_payments, payments, i, calls,
                   status, page, served, result, date_time, store>>

\* set_filter, lines 151-164: the apply-filter / clear_nav POST
set_filter_apply ==
    /\ pc = "apply_filter"
    /\ \E ok \in BOOLEAN :
         /\ reqs' = Append(reqs, Req("daily_payments", "POST", "apply_filter",
                                     FilterId(kind), "None", session_id, 0, ok))
         /\ IF _send_post_request(ok) = "response"
            THEN pc' = "export" /\ raised' = raised
            ELSE pc' = "raised" /\ raised' = "requests.RequestException"
    /\ UNCHANGED <<caller, kind, session_id, premium_payments, payments, i, calls,
                   status, page, served, result, date_time, store>>

\* ---- the CSV exports the portal returns to the handler
RunHeader == <<"ID", "AMOUNT", "DATE_OF_USE", "MEMBER_ID", "">>
RunRow(k) == <<ToString(k), "1 234,56", "01.06.2024", "m" \o ToString(k), "">>
RunRows(n) == <<RunHeader>> \o [k \in 1..n |-> RunRow(k)]
\* the lengths around the multiples of chunk_size
RunLengths ==
    {0, 1} \cup {k * chunk_size + d : k \in 1..MaxChunks, d \in {-1, 0, 1}}
RunContents ==
    \* well-formed exports
    {[rows |-> RunRows(n), bad |-> 0] : n \in RunLengths}
    \* the first row has an empty ID
    \cup {[rows |-> [RunRows(n) EXCEPT ![2][1] = ""], bad |-> 0] : n \in {1, chunk_size + 1}}
    \* the last row has two fields only
    \cup {[rows |-> [RunRows(n) EXCEPT ![n + 1] = SubSeq(RunRow(n), 1, 2)], bad |-> 0] :
            n \in {2, chunk_size + 1}}
    \* the reader raises csv.Error at the last line
    \cup {[rows |-> RunRows(1), bad |-> 2]}

\* index.py lines 18-28: where the handler stands once the chunk loop of
\* report kind k has reached index n of a list of length len
AfterChunk(k, n, len) ==
    IF n < len THEN [pc |-> "chunks", kind |-> k, status |-> 0]
    ELSE IF k = "premium" THEN [pc |-> "store_filter", kind |-> "standard", status |-> 0]
    ELSE [pc |-> "done", kind |-> k, status |-> 200]

\* get_payments / get_premium_payments after set_filter (lines 212-225,
\* 234-247): the export GET and the parse of its body; then index.py lines
\* 17-18 / 23-24 enter the chunk loop
get_export ==
    /\ pc = "export"
    /\ \E ok \in BOOLEAN :
         /\ reqs' = Append(reqs, Req("daily_payments", "GET", "export", ExportType(kind),
                                     "None", session_id, 0, ok))
         /\ IF ~ok
            THEN /\ pc' = "raised" /\ raised' = "requests.RequestException"
                 /\ UNCHANGED <<kind, premium_payments, payments, i, status>>
            ELSE \E c \in RunContents :
                   LET out == _parse_csv_payments(c, kind = "premium", date_time)
                       nxt == AfterChunk(kind, 0, Len(out.payments))
                   IN IF out.exc # ""
                      THEN /\ pc' = "raised" /\ raised' = out.exc
                           /\ UNCHANGED <<kind, premium_payments, payments, i, status>>
                      ELSE /\ pc' = nxt.pc /\ kind' = nxt.kind /\ status' = nxt.status
                           /\ raised' = raised
                           /\ i' = IF Len(out.payments) > 0 THEN 0 ELSE i
                           /\ premium_payments' =
                                IF kind = "premium" THEN out.payments ELSE premium_payments
                           /\ payments' = IF kind = "premium" THEN payments ELSE out.payments
    /\ UNCHANGED <<caller, session_id, calls, page, served, result, date_time, store>>

\* index.py lines 19 / 25: chunk = records[i:i + chunk_size]
Chunk(records, n) == SubSeq(records, n + 1, Min(n + chunk_size, Len(records)))
\* range(0, len(records), chunk_size): the index after n
MutNextIndexSkip(n) == n + chunk_size + 1
NextIndex(n) == n + chunk_size

\* index.py lines 18-20 / 24-26: one iteration of the chunk loop, the whole
\* upset_data call included
upsert_chunk ==
    /\ pc = "chunks"
    /\ LET records == IF kind = "premium" THEN premium_payments ELSE payments
           chunk == Chunk(records, i)
           failure == LocalFailure(chunk)
           nxt == AfterChunk(kind, NextIndex(i), Len(records))
           prep == [op |-> "prepare", table |-> TableOf(kind), rows |-> Len(chunk)]
           exec == [op |-> "execute", table |-> TableOf(kind), rows |-> Len(chunk)]
       IN IF failure # ""
          THEN /\ calls' = Append(calls, [table |-> TableOf(kind), data |-> chunk,
                                          exc |-> failure])
               /\ pc' = "raised" /\ raised' = failure
               /\ UNCHANGED <<kind, i, status, store>>
          ELSE \E outcome \in {"ok", "prepare fails", "execute fails"} :
                 /\ store' = IF outcome = "prepare fails" THEN Append(store, prep)
                             ELSE store \o <<prep, exec>>
                 /\ calls' = Append(calls, [table |-> TableOf(kind), data |-> chunk,
                                            exc |-> IF outcome = "ok" THEN "" ELSE "ydb.Error"])
                 /\ IF outcome = "ok"
                    THEN /\ pc' = nxt.pc /\ kind' = nxt.kind /\ status' = nxt.status
                         /\ raised' = raised
                         /\ i' = IF nxt.pc = "chunks" THEN NextIndex(i) ELSE i
                    ELSE /\ pc' = "raised" /\ raised' = "ydb.Error"
                         /\ UNCHANGED <<kind, i, status>>
    /\ UNCHANGED <<caller, session_id, reqs, premium_payments, payments, page,
                   served, result, date_time>>

(***************************************************************************)
(* The paginated scrapers (parser.py 249-337).                             *)
(*                                                                         *)
(* A page response is [ok, table, head, headers, rows]: ok is the          *)
(* transport outcome, table whether the grid's table is in the body, head  *)
(* whether its header element is (thead / tr.bx-grid-head), headers the    *)
(* stripped texts of the header cells, rows the matched data rows, each    *)
(* [cells, action] with action the data-actions attribute of the row's     *)
(* action button ("" : none).                                              *)
(***************************************************************************)
\* CONFIG['max_pages'] (parser.py line 36) is 100; the loop is run here with
\* a smaller bound of the same role
max_pages == 3

CellText(p, r, c) == "p" \o ToString(p) \o "r" \o ToString(r) \o "c" \o ToString(c)
ListingRow(p, r) ==
    [cells |-> <<CellText(p, r, 1), CellText(p, r, 2), CellText(p, r, 3)>>, action |-> ""]
PageBody(ok, tbl, head, hdrs, rows) ==
    [ok |-> ok, table |-> tbl, head |-> head, headers |-> hdrs, rows |-> rows]
\* what the server may answer to the request for page p
Bodies(p) ==
    { PageBody(FALSE, FALSE, FALSE, <<>>, <<>>),
      PageBody(TRUE, FALSE, FALSE, <<>>, <<>>),
      PageBody(TRUE, TRUE, FALSE, <<>>, <<ListingRow(p, 1), ListingRow(p, 2)>>),
      PageBody(TRUE, TRUE, TRUE, <<"", "">>, <<ListingRow(p, 1), ListingRow(p, 2)>>),
      PageBody(TRUE, TRUE, TRUE, <<"Name", "", "Status">>, <<>>),
      PageBody(TRUE, TRUE, TRUE, <<"Name", "", "Status">>, <<ListingRow(p, 1)>>),
      PageBody(TRUE, TRUE, TRUE, <<"Name", "", "Status">>,
               <<ListingRow(p, 1), ListingRow(p, 2)>>),
      PageBody(TRUE, TRUE, TRUE, <<"Name", "", "Status">>,
               << [ListingRow(p, 1) EXCEPT !.action = "bx24vendorClients(17)"],
                  [cells |-> <<CellText(p, 2, 1)>>, action |-> ""],
                  [ListingRow(p, 3) EXCEPT !.action = "noop()"] >>) }

\* {headers[i]: cells[i].text.strip() for i in range(len(headers))}
RECURSIVE RowData(_, _, _, _)
RowData(hdrs, cells, n, acc) ==
    IF n > Len(hdrs) THEN acc
    ELSE RowData(hdrs, cells, n + 1, DictSet(acc, hdrs[n], cells[n]))

\* lines 286-291: re.search(r"bx24vendorClients\((\d+)\)", actions)
ActionId(action) == IF action = "bx24vendorClients(17)" THEN "17" ELSE ""

\* lines 275, 281-292: the rows one page of the application grid adds
AppHeaders(body) == LET NonEmpty(t) == t # "" IN SelectSeq(body.headers, NonEmpty)
AppRowData(hdrs, row) ==
    IF ActionId(row.action) # ""
    THEN DictSet(RowData(hdrs, row.cells, 1, <<>>), "id", ActionId(row.action))
    ELSE RowData(hdrs, row.cells, 1, <<>>)
AppPageRows(body) ==
    LET hdrs == AppHeaders(body)
        Long(row) == Len(row.cells) >= Len(hdrs)
        kept == SelectSeq(body.rows, Long)
    IN [n \in 1..Len(kept) |-> AppRowData(hdrs, kept[n])]

\* lines 325, 329-333: the rows one page of the client grid adds
ClientHeaders(body) == [n \in 1..Len(body.headers) |->
                          IF body.headers[n] = "" THEN "actions" ELSE body.headers[n]]
ClientPageRows(body) ==
    LET hdrs == ClientHeaders(body)
        Long(row) == Len(row.cells) >= Len(hdrs)
        kept == SelectSeq(body.rows, Long)
    IN [n \in 1..Len(kept) |-> RowData(hdrs, kept[n].cells, 1, <<>>)]

\* lines 269-280, 293-295: what the body of a page does to the loop of
\* get_app_list: "break", "raise" (table.find('thead') is None), "rows"
MutAppPageOutcomeContinue(body) ==
    IF ~body.ok THEN "rows"
    ELSE IF ~body.table THEN "break"
    ELSE IF ~body.head THEN "raise"
    ELSE IF Len(SelectSeq(body.headers, LAMBDA t : t # "")) = 0 THEN "break"
    ELSE IF Len(body.rows) = 0 THEN "break"
    ELSE "rows"
AppPageOutcome(body) ==
    IF ~body.ok THEN "break"
    ELSE IF ~body.table THEN "break"
    ELSE IF ~body.head THEN "raise"
    ELSE IF Len(AppHeaders(body)) = 0 THEN "break"
    ELSE IF Len(body.rows) = 0 THEN "break"
    ELSE "rows"

\* lines 317-328, 334-336: the same for get_client_list
ClientPageOutcome(body) ==
    IF ~body.ok THEN "break"
    ELSE IF ~body.table THEN "break"
    ELSE IF ~body.head THEN "break"
    ELSE IF Len(body.rows) <= 1 THEN "break"
    ELSE "rows"

\* line 256 / 308: for page in range(1, max_pages + 1) -- the page after `pg`
NextPage(pg) == pg + 1
\* whether the loop goes on after page pg was processed without a break
MutMorePagesUnbounded(pg) == pg < max_pages + 1
MorePages(pg) == pg < max_pages

\* get_app_list, lines 255-296: one iteration of the page loop (and the
\* return, when it is the last)
get_app_list_page ==
    /\ pc = "pages"
    /\ caller = "get_app_list"
    /\ page' = NextPage(page)
    /\ \E body \in Bodies(page') :
         /\ reqs' = Append(reqs, Req("app_list", "GET", "page", "vendor_app_list",
                                     "None", session_id, page', body.ok))
         /\ served' = Append(served, body)
         /\ CASE AppPageOutcome(body) = "break" ->
                   pc' = "done" /\ raised' = raised /\ result' = result
              [] AppPageOutcome(body) = "raise" ->
                   pc' = "raised" /\ raised' = "AttributeError" /\ result' = result
              [] OTHER ->
                   /\ pc' = IF MorePages(page') THEN "pages" ELSE "done"
                   /\ raised' = raised
                   /\ result' = result \o AppPageRows(body)
    /\ UNCHANGED <<caller, kind, session_id, premium_payments, payments, i, calls,
                   status, date_time, store>>

\* get_client_list, lines 307-337
ClientAppId == "17"
get_client_list_page ==
    /\ pc = "pages"
    /\ caller = "get_client_list"
    /\ page' = NextPage(page)
    /\ \E body \in Bodies(page') :
         /\ reqs' = Append(reqs, Req("app_client_list", "GET", "page", ClientAppId,
                                     "None", "None", page', body.ok))
         /\ served' = Append(served, body)
         /\ IF ClientPageOutcome(body) = "break"
            THEN pc' = "done" /\ result' = result
            ELSE /\ pc' = IF MorePages(page') THEN "pages" ELSE "done"
                 /\ result' = result \o ClientPageRows(body)
    /\ UNCHANGED <<caller, kind, session_id, premium_payments, payments, i, calls,
                   status, raised, date_time, store>>

(***************************************************************************)
(* The specifications.                                                     *)
(***************************************************************************)
RunIdle ==
    /\ caller = "none" /\ pc = "idle" /\ kind = "premium" /\ session_id = "None"
    /\ reqs = <<>> /\ premium_payments = <<>> /\ payments = <<>> /\ i = 0
    /\ calls = <<>> /\ status = 0 /\ raised = "" /\ page = 0 /\ served = <<>>
    /\ result = <<>>
CsvIdle ==
    /\ content = [rows |-> <<>>, bad |-> 0] /\ is_premium = FALSE /\ header = <<>>
    /\ rix = 0 /\ csv_payments = <<>> /\ cpc = "idle" /\ cexc = ""
UpIdle ==
    /\ table = "" /\ data = <<>> /\ upc = "idle" /\ uexc = "" /\ query = NoQuery
    /\ param_values = <<>>

\* index.py lines 8-14: the handler parses the date and constructs
\* ParseVendors, whose __init__ (parser.py 39-49) calls auth(); a caller of a
\* scraper constructs ParseVendors the same way
Init ==
    /\ caller \in {"handler", "get_app_list", "get_client_list"}
    /\ pc = "auth"
    /\ kind = "premium"
    /\ date_time \in DateTimes
    /\ session_id = "None"
    /\ reqs = <<>>
    /\ premium_payments = <<>>
    /\ payments = <<>>
    /\ i = 0
    /\ calls = <<>>
    /\ store = <<>>
    /\ status = 0
    /\ raised = ""
    /\ page = 0
    /\ served = <<>>
    /\ result = <<>>
    /\ CsvIdle
    /\ UpIdle

Next ==
    \/ auth /\ UNCHANGED <<csvOnly, upOnly>>
    \/ set_filter_store /\ UNCHANGED <<csvOnly, upOnly>>
    \/ set_filter_apply /\ UNCHANGED <<csvOnly, upOnly>>
    \/ get_export /\ UNCHANGED <<csvOnly, upOnly>>
    \/ upsert_chunk /\ UNCHANGED <<csvOnly, upOnly>>
    \/ get_app_list_page /\ UNCHANGED <<csvOnly, upOnly>>
    \/ get_client_list_page /\ UNCHANGED <<csvOnly, upOnly>>

Spec == Init /\ [][Next]_vars

\* The run of a caller of a scraper alone.  The run is one sequential thread
\* and every request blocks until its response or its failure arrives: a
\* step that can be taken is taken.
InitPages == Init /\ caller \in {"get_app_list", "get_client_list"}
NextPages ==
    \/ auth /\ UNCHANGED <<csvOnly, upOnly>>
    \/ get_app_list_page /\ UNCHANGED <<csvOnly, upOnly>>
    \/ get_client_list_page /\ UNCHANGED <<csvOnly, upOnly>>
SpecPages == InitPages /\ [][NextPages]_vars /\ WF_vars(NextPages)

InitCsv == CsvInit /\ RunIdle /\ UpIdle /\ store = <<>>
NextCsv ==
    \/ CsvHeader /\ UNCHANGED <<runOnly, upOnly, store>>
    \/ CsvRow /\ UNCHANGED <<runOnly, upOnly, store>>
    \/ CsvReturn /\ UNCHANGED <<runOnly, upOnly, store>>
SpecCsv == InitCsv /\ [][NextCsv]_vars

InitUpsert == UpInit /\ RunIdle /\ CsvIdle /\ date_time \in {[mm |-> "07", yyyy |-> "2024"]}
NextUpsert ==
    \/ UpsetValidate /\ UNCHANGED <<runOnly, csvOnly, date_time>>
    \/ UpsetBuild /\ UNCHANGED <<runOnly, csvOnly, date_time>>
    \/ UpsetPrepare /\ UNCHANGED <<runOnly, csvOnly, date_time>>
    \/ UpsetExecute /\ UNCHANGED <<runOnly, csvOnly, date_time>>
SpecUpsert == InitUpsert /\ [][NextUpsert]_vars

(***************************************************************************)
(* Properties.                                                             *)
(***************************************************************************)
RECURSIVE ConcatAll(_)
ConcatAll(ss) == IF Len(ss) = 0 THEN <<>> ELSE Head(ss) \o ConcatAll(Tail(ss))

StatementBuilt == upc \in {"built", "prepared", "returned"}
BatchDiffers == \E n \in 1..Len(data) : KeySet(data[n]) # KeySet(data[1])

\* C1: a batch in which some record's key set differs from the first
\* record's makes upset_data raise the validation error, and it never
\* reaches the store: no statement is built or prepared, no transaction is
\* executed.
C1_ValidationBeforeStore ==
    BatchDiffers =>
        /\ upc \in {"start", "raised"}
        /\ upc = "raised" => uexc = "ValueError(structure)"
        /\ store = <<>>
        /\ query = NoQuery
        /\ param_values = <<>>
C1_Witness ==
    /\ BatchDiffers
    /\ Len(data) >= 2
    /\ upc = "raised"
    /\ uexc = "ValueError(structure)"

C2_FilterOf(type) ==
    IF type = "payouts_premium" THEN "mp24_subscription_premium_for_partners"
    ELSE "mp24_subscription_partner"
\* C2: an export GET is sent only right after the store-filter POST and then
\* the apply-filter POST of the same report both succeeded in this run; a
\* failed filter POST is the last request of the run.
C2_ExportAfterFilter ==
    \A n \in 1..Len(reqs) :
        /\ reqs[n].mode = "export" =>
             /\ n >= 3
             /\ reqs[n - 2].ep = "filter" /\ reqs[n - 2].method = "POST"
             /\ reqs[n - 2].mode = "setFilter" /\ reqs[n - 2].ok
             /\ reqs[n - 2].report = C2_FilterOf(reqs[n].report)
             /\ reqs[n - 1].ep = "daily_payments" /\ reqs[n - 1].method = "POST"
             /\ reqs[n - 1].mode = "apply_filter" /\ reqs[n - 1].ok
             /\ reqs[n - 1].report = C2_FilterOf(reqs[n].report)
        /\ (reqs[n].mode \in {"setFilter", "apply_filter"} /\ ~reqs[n].ok) => n = Len(reqs)
        /\ reqs[n].mode = "apply_filter" =>
             n >= 2 /\ reqs[n - 1].mode = "setFilter" /\ reqs[n - 1].ok
C2_Witness ==
    /\ \E n \in 1..Len(reqs) : reqs[n].mode = "export" /\ reqs[n].report = "payouts_premium"
    /\ \E n \in 1..Len(reqs) : reqs[n].mode = "export" /\ reqs[n].report = "payouts"

C3_Fatal(r) == r.mode \in {"login", "setFilter", "apply_filter", "export"} /\ ~r.ok
\* C3: a failed login (transport failure or no session token), filter POST
\* or export GET ends the run: the failed request is the last one sent (it is
\* not sent again), the handler returns no statusCode 200, and once the run
\* has raised no portal request and no upsert follows.
C3_FailureIsFatal ==
    /\ [](/\ \A n \in 1..Len(reqs) : C3_Fatal(reqs[n]) => n = Len(reqs)
          /\ (reqs # <<>> /\ (\/ C3_Fatal(reqs[Len(reqs)])
                              \/ (reqs[Len(reqs)].mode = "login" /\ session_id = "None")))
               => (pc = "raised" /\ raised # "" /\ status = 0))
    /\ [][pc = "raised" =>
            (reqs' = reqs /\ calls' = calls /\ store' = store /\ status' = 0)]_vars
C3_Witness ==
    /\ pc = "raised"
    /\ Len(calls) > 0
    /\ reqs[Len(reqs)].mode = "setFilter"
    /\ ~reqs[Len(reqs)].ok

Scraping == caller \in {"get_app_list", "get_client_list"} /\ session_id # "None"
PageRowsOf(body) ==
    IF caller = "get_app_list" THEN AppPageRows(body) ELSE ClientPageRows(body)
RowsOfPages(bodies) == ConcatAll([n \in 1..Len(bodies) |-> PageRowsOf(bodies[n])])
Populated(body) ==
    /\ body.ok /\ body.table /\ body.head
    /\ \E n \in 1..Len(body.headers) : body.headers[n] # ""
    /\ Len(body.rows) >= 2
PageReqs == SelectSeq(reqs, LAMBDA r : r.mode = "page")

PagesBounded ==
    Scraping =>
        /\ Len(PageReqs) <= max_pages
        /\ \A n \in 1..Len(PageReqs) : PageReqs[n].page = n
        /\ pc = "pages" => Len(PageReqs) < max_pages
        /\ (pc \in {"done", "raised"} /\ \A n \in 1..Len(served) : Populated(served[n])) =>
             /\ pc = "done"
             /\ Len(PageReqs) = max_pages
             /\ Len(served) = max_pages
             /\ result = RowsOfPages(served)
             /\ \A p \in 1..max_pages : \E n \in 1..Len(result) :
                    result[n][1][2] = CellText(p, 1, 1)
\* C5: a scraper always returns (or raises), having sent at most max_pages
\* page requests, for pages 1, 2, ... in increasing order, none twice; when
\* every page served is a populated table it stops after exactly max_pages
\* requests and returns the rows of all max_pages pages, in page order.
C5_PaginationTerminates ==
    /\ []PagesBounded
    /\ Scraping ~> (pc \in {"done", "raised"})
C5_Witness ==
    /\ caller = "get_app_list"
    /\ pc = "done"
    /\ Len(PageReqs) = max_pages
    /\ \A n \in 1..Len(served) : Populated(served[n])
    /\ Len(result) > max_pages

\* C6: when the request for page k fails at transport level the scraper
\* raises nothing, requests no page after k and returns exactly the rows of
\* pages 1..k-1.
C6_TransportFailureTruncates ==
    Scraping =>
        \A k \in 1..Len(served) :
            ~served[k].ok =>
                /\ k = Len(served)
                /\ Len(PageReqs) = k
                /\ pc = "done"
                /\ raised = ""
                /\ result = RowsOfPages(SubSeq(served, 1, k - 1))
C6_Witness ==
    /\ Scraping
    /\ Len(served) = 2
    /\ ~served[2].ok
    /\ pc = "done"
    /\ result # <<>>
C6_WitnessFirstPage ==
    /\ Scraping
    /\ Len(served) = 1
    /\ ~served[1].ok
    /\ pc = "done"
    /\ result = <<>>

ExpectedColumns ==
    header \o (IF is_premium THEN <<"hash", "DATE_PARSE">> ELSE <<>>)
\* C7 as claimed: every record of a parsed export has the columns of the
\* export header minus its final column, in that order (followed by hash and
\* DATE_PARSE for the premium kind), whatever the number of fields of its row.
C7_RecordsHaveHeaderColumns ==
    cpc \in {"rows", "returned"} =>
        \A n \in 1..Len(csv_payments) : Keys(csv_payments[n]) = ExpectedColumns

DataRows == SubSeq(content.rows, 2, Len(content.rows))
\* the ID field of a row: the field under the header column "ID"
HasNonEmptyId(row) ==
    \E c \in 1..Min(Len(header), Len(row)) : header[c] = "ID" /\ row[c] # ""
Retained(row) == Len(row) > 1 /\ (is_premium \/ HasNonEmptyId(row))
\* C8 as claimed: no single row aborts the parse, and the result holds, once
\* each and in input order, the rows with more than one field that are of the
\* premium kind or carry a non-empty ID.
C8_RowRetention ==
    /\ cpc = "raised" => cexc \in {"csv.Error", "StopIteration"}
    /\ cpc = "returned" =>
         LET kept == SelectSeq(DataRows, Retained) IN
         /\ Len(csv_payments) = Len(kept)
         /\ \A n \in 1..Len(kept) :
                \A c \in 1..Min(Len(header), Len(kept[n])) :
                    /\ HasKey(csv_payments[n], header[c])
                    /\ Get(csv_payments[n], header[c]).t = "str" =>
                         Get(csv_payments[n], header[c]).v \in {kept[n][c], DateIso(kept[n][c])}

\* C9: for a valid batch of N records sharing C columns the statement
\* declares N*C pairwise distinctly named parameters, one per cell and bound
\* to that cell's value, and has exactly N value tuples, the r-th naming the
\* C parameters of record r in the order of the UPSERT column list.
C9_StatementShape ==
    StatementBuilt =>
        LET N == Len(data)
            C == Cardinality(KeySet(data[1]))
            names == {query.declare[k].name : k \in 1..Len(query.declare)}
        IN /\ Len(query.declare) = N * C
           /\ Cardinality(names) = N * C
           /\ Len(param_values) = N * C
           /\ KeySet(param_values) = names
           /\ Len(query.columns) = C
           /\ {query.columns[c] : c \in 1..C} = KeySet(data[1])
           /\ Len(query.values) = N
           /\ \A r \in 1..N :
                /\ Len(query.values[r]) = C
                /\ \A c \in 1..C :
                     /\ query.values[r][c] \in names
                     /\ Get(param_values, query.values[r][c]).v
                          = Get(data[r], query.columns[c]).v
           /\ \A r1, r2 \in 1..N : \A c1, c2 \in 1..C :
                query.values[r1][c1] = query.values[r2][c2] => (r1 = r2 /\ c1 = c2)
C9_Witness ==
    /\ upc = "returned"
    /\ Len(data) >= 2
    /\ Len(data[1]) >= 2
    /\ Keys(data[2]) # Keys(data[1])
    /\ data[2] # data[1]

CallsTo(tbl) == SelectSeq(calls, LAMBDA c : c.table = tbl)
Submitted(tbl) == ConcatAll([n \in 1..Len(CallsTo(tbl)) |-> CallsTo(tbl)[n].data])
\* C10: for each report kind every batch handed to upset_data is non-empty
\* and has at most 100 records, the batches in submission order are
\* consecutive pieces of the extracted list from its start, they make up the
\* whole list once the loop of the kind is over, and an empty list makes no
\* call.
C10_Chunking ==
    caller = "handler" =>
        /\ \A n \in 1..Len(calls) :
               Len(calls[n].data) >= 1 /\ Len(calls[n].data) <= 100
        /\ Len(Submitted("payments_premium")) <= Len(premium_payments)
        /\ Submitted("payments_premium")
             = SubSeq(premium_payments, 1, Len(Submitted("payments_premium")))
        /\ Len(Submitted("payments")) <= Len(payments)
        /\ Submitted("payments") = SubSeq(payments, 1, Len(Submitted("payments")))
        /\ kind = "standard" => Submitted("payments_premium") = premium_payments
        /\ pc = "done" => (status = 200 /\ Submitted("payments") = payments)
        /\ premium_payments = <<>> => CallsTo("payments_premium") = <<>>
        /\ payments = <<>> => CallsTo("payments") = <<>>
C10_Witness ==
    /\ caller = "handler"
    /\ pc = "done"
    /\ status = 200
    /\ Len(CallsTo("payments")) >= 3
    /\ Len(payments) % 100 = 1
    /\ Len(CallsTo("payments_premium")) >= 1

====
